---- MODULE Spec2Model ----
(***************************************************************************)
(* Static block pool of lj_mcode_spool.c: a first-fit allocator of 64 KiB  *)
(* blocks over a static buffer, with an occupancy map guarded by a global  *)
(* mutex.  Threads call lj_alloc_from_static_pool and                      *)
(* lj_release_to_static_pool; each call is modelled as the sequence of     *)
(* steps the C code takes (argument rounding, lock, scan, mprotect, mark,  *)
(* unlock, return).                                                        *)
(*                                                                         *)
(* An unsigned int is kept as two 16-bit halves <<hi, lo>> (value          *)
(* hi * 2^16 + lo), so that every 32-bit size is representable and         *)
(* size / 65536 and size & 65535 are the halves.  Addresses are byte       *)
(* addresses.                                                              *)
(*                                                                         *)
(* The value a call returns is fixed by the position it returns from:      *)
(* acquire returns loc.p from "a_unlock" and NULL from "a_ret"; release    *)
(* returns 0 from "r_unlock" and 1 from "r_ret1"; at "abort" an assert0    *)
(* has terminated the process.                                             *)
(***************************************************************************)
EXTENDS Integers, Naturals, Sequences, FiniteSets, TLC

\* ------------------------------------------------------------------ bounds
\* Number of 64 KiB blocks of the pool: the build sets
\* LJ_ANDROID_MCODE_STATIC_POOL_KB = PoolBlocks * 64.
PoolBlocks == 3
\* Number of threads calling into the pool.
NumThreads == 2

\* --------------------------------------------------------------- constants
STATIC_POOL_MIN_BLOCK_SIZE_KB == 64
KB == 1024
PageSize == 4096
HalfWord == 65536
IntSignBit == 32768
NULL == 0
Unlocked == 0
PROT_READ == 1
PROT_WRITE == 2
PROT_EXEC == 4

LJ_ANDROID_MCODE_STATIC_POOL_KB == PoolBlocks * STATIC_POOL_MIN_BLOCK_SIZE_KB
STATIC_POOL_SIZE == LJ_ANDROID_MCODE_STATIC_POOL_KB * KB
STATIC_POOL_MIN_BLOCK_SIZE == STATIC_POOL_MIN_BLOCK_SIZE_KB * KB
STATIC_POOL_BLOCK_SIZE_MASK == STATIC_POOL_MIN_BLOCK_SIZE - 1
STATIC_POOL_MAX_ENTRIES == LJ_ANDROID_MCODE_STATIC_POOL_KB \div STATIC_POOL_MIN_BLOCK_SIZE_KB

Threads == 1..NumThreads
Blocks == 0..(STATIC_POOL_MAX_ENTRIES - 1)

\* ------------------------------------------------------- unsigned int
\* The unsigned int hi * 2^16 + lo.
U32(hi, lo) == <<hi, lo>>
\* size / STATIC_POOL_MIN_BLOCK_SIZE: the block size is 2^16, the quotient
\* is the high half.
DivBlockSize(size) == size[1]
\* size & STATIC_POOL_BLOCK_SIZE_MASK: the low half.
AndBlockMask(size) == size[2]

\* Lines 84-90 and 150-156: the size in blocks, rounded up.
\* The rounding forgotten: the quotient alone.
SizeBlocksNoRound(size) == DivBlockSize(size)
\* The rounding done whatever the remainder.
SizeBlocksAlwaysRound(size) == DivBlockSize(size) + 1
SizeBlocks(size) ==
  IF AndBlockMask(size) # 0 THEN DivBlockSize(size) + 1 ELSE DivBlockSize(size)

\* ------------------------------------------------------------ addresses
\* x & ~(STATIC_POOL_MIN_BLOCK_SIZE - 1)
AndNotBlockMask(x) == x - (x % STATIC_POOL_MIN_BLOCK_SIZE)
\* Lines 110 and 162: the first block-aligned address of the buffer.
\* The address of the buffer, not rounded up.
AlignedPoolStartUnrounded(poolAddr) == poolAddr
\* The rounding with a whole block added.
AlignedPoolStartNextBlock(poolAddr) ==
  AndNotBlockMask(poolAddr + STATIC_POOL_MIN_BLOCK_SIZE)
AlignedPoolStart(poolAddr) ==
  AndNotBlockMask(poolAddr + STATIC_POOL_MIN_BLOCK_SIZE - 1)
\* Line 114: the address of block start.
BlockAddress(aligned, start) == aligned + start * STATIC_POOL_MIN_BLOCK_SIZE

\* ------------------------------------------------------------ the scan
\* Lines 103-108: the inner loop, from index end up to (not including) stop;
\* TRUE when every flag read is 0.
RECURSIVE InnerAllOk(_, _, _)
InnerAllOk(m, end, stop) ==
  IF end >= stop THEN TRUE
  ELSE IF m[end] # 0 THEN FALSE
  ELSE InnerAllOk(m, end + 1, stop)

\* The outer loop without its break: it ends on the last fit, not the first.
RECURSIVE ScanDown(_, _, _)
ScanDown(m, start, size_blocks) ==
  IF start < 0 THEN <<FALSE, 0>>
  ELSE IF m[start] = 0 /\ InnerAllOk(m, start, start + size_blocks)
       THEN <<TRUE, start>>
  ELSE ScanDown(m, start - 1, size_blocks)
ScanLastFit(m, start, size_blocks) ==
  ScanDown(m, STATIC_POOL_MAX_ENTRIES - size_blocks, size_blocks)

\* The outer loop with the bound start < N - size_blocks: the last
\* candidate is never tried.
RECURSIVE ScanStrictBound(_, _, _)
ScanStrictBound(m, start, size_blocks) ==
  IF ~(start < STATIC_POOL_MAX_ENTRIES - size_blocks) THEN <<FALSE, start>>
  ELSE IF m[start] = 0 /\ InnerAllOk(m, start, start + size_blocks)
       THEN <<TRUE, start>>
  ELSE ScanStrictBound(m, start + 1, size_blocks)

\* Lines 98-130: the outer loop from index start; <<found, start>>.
RECURSIVE ScanFrom(_, _, _)
ScanFrom(m, start, size_blocks) ==
  IF ~(start <= STATIC_POOL_MAX_ENTRIES - size_blocks) THEN <<FALSE, start>>
  ELSE IF m[start] = 0 /\ InnerAllOk(m, start, start + size_blocks)
       THEN <<TRUE, start>>
  ELSE ScanFrom(m, start + 1, size_blocks)

\* Lines 102-107: the indices of the map the inner loop reads, from end up
\* to the first flag that is not 0 or to stop - 1.
RECURSIVE InnerReads(_, _, _)
InnerReads(m, end, stop) ==
  IF end >= stop THEN {}
  ELSE IF m[end] # 0 THEN {end}
  ELSE {end} \cup InnerReads(m, end + 1, stop)

\* Lines 98-108: the indices of the map the scan reads, from index start.
RECURSIVE ScanReads(_, _, _)
ScanReads(m, start, size_blocks) ==
  IF ~(start <= STATIC_POOL_MAX_ENTRIES - size_blocks) THEN {}
  ELSE IF m[start] # 0 THEN {start} \cup ScanReads(m, start + 1, size_blocks)
  ELSE IF InnerAllOk(m, start, start + size_blocks)
       THEN {start} \cup InnerReads(m, start, start + size_blocks)
  ELSE {start} \cup InnerReads(m, start, start + size_blocks)
               \cup ScanReads(m, start + 1, size_blocks)

\* Lines 119-121 and 181-187: the indices the marking loop of n flags from
\* index first reads and writes.
MarkIndices(first, n) == first..(first + n - 1)

\* Lines 119-121 and 181-187: the marking loop, writing v to flags
\* mark .. stop-1.
RECURSIVE MarkLoop(_, _, _, _)
MarkLoop(m, mark, stop, v) ==
  IF mark >= stop THEN m
  ELSE MarkLoop([m EXCEPT ![mark] = v], mark + 1, stop, v)

\* Lines 119-121: mark the run start .. start+size_blocks-1 used.
AcquireRunShort(m, start, size_blocks) ==
  MarkLoop(m, start, start + size_blocks - 1, 1)
AcquireRun(m, start, size_blocks) ==
  MarkLoop(m, start, start + size_blocks, 1)

\* Lines 181-187: mark the run index .. index+size_blocks-1 free.
ReleaseRunFirstOnly(m, index, size_blocks) == [m EXCEPT ![index] = 0]
ReleaseRunToggle(m, index, size_blocks) ==
  [i \in DOMAIN m |->
     IF i >= index /\ i < index + size_blocks THEN 1 - m[i] ELSE m[i]]
\* The loop running one flag too far.
ReleaseRunOneMore(m, index, size_blocks) ==
  [i \in DOMAIN m |->
     IF i >= index /\ i <= index + size_blocks THEN 0 ELSE m[i]]
ReleaseRun(m, index, size_blocks) ==
  MarkLoop(m, index, index + size_blocks, 0)

\* Line 124: after a failed mprotect the call's result is NULL.
ProtectFailedKeepsP(p) == p
ProtectFailed(p) == NULL

\* --------------------------------------------------------------- state
VARIABLES
  pool,      \* address of _static_alloc_pool (set by the loader, page aligned)
  map,       \* _static_alloc_map: flag per block, 1 = occupied
  prot,      \* page protection of each block of the pool
  mutex,     \* _static_alloc_mutex: Unlocked or the thread holding it
  pc,        \* position of each thread in its current call
  loc,       \* arguments and locals of each thread's current call
  live,      \* per thread: the allocations granted to it and not yet released
  aborted    \* TRUE once an assert0 has terminated the process

vars == <<pool, map, prot, mutex, pc, loc, live, aborted>>

\* Arguments and locals of a call: size, prot and p are the arguments (p is
\* also acquire's result), size_blocks, start (acquire) and index (release) the
\* locals; already_released records that line 184 logged "already has block
\* released" (the first flag of the run was 0 before the release),
\* madvise_failed that line 190 logged "failed madvise".
IdleLoc ==
  [size |-> U32(0, 0), prot |-> 0, size_blocks |-> 0, p |-> NULL, start |-> 0,
   index |-> 0, already_released |-> FALSE, madvise_failed |-> FALSE]

\* Line 76-77: the buffer is aligned to 4096; the loader picks the address.
PoolStarts == {PageSize * 16, PageSize * 17}

\* Sizes callers ask for: 0, half a block (rounded up to one block), 2..N
\* whole blocks, and one byte more than the pool.
HalfBlock == U32(0, STATIC_POOL_MIN_BLOCK_SIZE \div 2)
AllocSizes ==
  {U32(0, 0), HalfBlock, U32(STATIC_POOL_MAX_ENTRIES, 1)}
    \cup {U32(k, 0) : k \in 2..STATIC_POOL_MAX_ENTRIES}

\* Line 77: the buffer lies in .bss, which the loader maps readable and
\* writable.  Lines 214-299: the protections callers ask for.
BssProt == PROT_READ + PROT_WRITE
Prots == {PROT_READ + PROT_WRITE, PROT_READ + PROT_WRITE + PROT_EXEC}

Init ==
  /\ pool \in PoolStarts
  /\ map = [i \in Blocks |-> 0]
  /\ prot = [i \in Blocks |-> BssProt]
  /\ mutex = Unlocked
  /\ pc = [t \in Threads |-> "idle"]
  /\ loc = [t \in Threads |-> IdleLoc]
  /\ live = [t \in Threads |-> {}]
  /\ aborted = FALSE

\* pthread_mutex_lock can take the mutex only when no thread holds it.
MutexAlwaysFree(m) == TRUE
MutexFree(m) == m = Unlocked

\* ------------------------------------------ lj_alloc_from_static_pool
\* Lines 83-93: round the size up to blocks; a size of 0 returns NULL
\* without taking the lock.
AllocCall(t, size, prt) ==
  /\ ~aborted
  /\ pc[t] = "idle"
  /\ LET size_blocks == SizeBlocks(size) IN
       /\ loc' = [loc EXCEPT ![t] =
                    [IdleLoc EXCEPT !.size = size, !.prot = prt,
                                    !.size_blocks = size_blocks]]
       /\ pc' = [pc EXCEPT ![t] = IF size_blocks = 0 THEN "a_ret" ELSE "a_lock"]
  /\ UNCHANGED <<pool, prot, map, mutex, live, aborted>>

\* Line 95: pthread_mutex_lock.
AllocLock(t) ==
  /\ ~aborted
  /\ pc[t] = "a_lock"
  /\ MutexFree(mutex)
  /\ mutex' = t
  /\ pc' = [pc EXCEPT ![t] = "a_scan"]
  /\ UNCHANGED <<pool, prot, map, loc, live, aborted>>

\* Lines 97-114 and 126-130: the first-fit scan; on a fit p is the address
\* of the run (the assert0 of line 111 cannot fail: its first conjunct is
\* aligned >= pool, its second is vacuous).
AllocScan(t) ==
  /\ ~aborted
  /\ pc[t] = "a_scan"
  /\ LET r == ScanFrom(map, 0, loc[t].size_blocks)
         aligned_pool_start == AlignedPoolStart(pool)
     IN IF r[1] /\ ~(aligned_pool_start >= pool)
        THEN /\ pc' = [pc EXCEPT ![t] = "abort"]
             /\ aborted' = TRUE
             /\ UNCHANGED loc
        ELSE IF r[1]
        THEN /\ loc' = [loc EXCEPT ![t].start = r[2],
                                   ![t].p = BlockAddress(aligned_pool_start, r[2])]
             /\ pc' = [pc EXCEPT ![t] = "a_mprotect"]
             /\ UNCHANGED aborted
        ELSE /\ UNCHANGED loc
             /\ pc' = [pc EXCEPT ![t] = "a_unlock"]
             /\ UNCHANGED aborted
  /\ UNCHANGED <<pool, prot, map, mutex, live>>

\* Line 117: mprotect(p, size_blocks * STATIC_POOL_MIN_BLOCK_SIZE, prot)
\* walks the range upwards.  When it returns 0 all size_blocks blocks have
\* the new protection; when it fails it may already have changed the
\* leading part of the range (POSIX: after a failure "the protections on
\* some of the pages in the range may have been changed").  The numbers of
\* leading blocks it can have changed.
ProtectOutcomes(ok, size_blocks) ==
  IF ok THEN {size_blocks} ELSE 0..(size_blocks - 1)
\* The protections after n blocks from block start on were given v.
SetProtOneMore(pr, start, n, v) ==
  [i \in Blocks |-> IF start <= i /\ i <= start + n THEN v ELSE pr[i]]
SetProt(pr, start, n, v) ==
  [i \in Blocks |-> IF start <= i /\ i < start + n THEN v ELSE pr[i]]

\* Lines 117-125: mprotect of the run, which changes done blocks; on
\* success the run is marked used, on failure p becomes NULL and the map is
\* not touched.
AllocProtect(t, ok, done) ==
  /\ ~aborted
  /\ pc[t] = "a_mprotect"
  /\ done \in ProtectOutcomes(ok, loc[t].size_blocks)
  /\ prot' = SetProt(prot, loc[t].start, done, loc[t].prot)
  /\ IF ok
     THEN /\ map' = AcquireRun(map, loc[t].start, loc[t].size_blocks)
          /\ live' = [live EXCEPT ![t] =
                        @ \cup {[p |-> loc[t].p, size |-> loc[t].size]}]
          /\ UNCHANGED loc
     ELSE /\ loc' = [loc EXCEPT ![t].p = ProtectFailed(loc[t].p)]
          /\ UNCHANGED <<map, live>>
  /\ pc' = [pc EXCEPT ![t] = "a_unlock"]
  /\ UNCHANGED <<pool, mutex, aborted>>

\* Lines 136-145: pthread_mutex_unlock, then p is returned to the caller.
AllocUnlockLeaksOnNull(t) ==
  /\ ~aborted
  /\ pc[t] = "a_unlock"
  /\ mutex' = IF loc[t].p = NULL THEN mutex ELSE Unlocked
  /\ pc' = [pc EXCEPT ![t] = "idle"]
  /\ loc' = [loc EXCEPT ![t] = IdleLoc]
  /\ UNCHANGED <<pool, prot, map, live, aborted>>
AllocUnlock(t) ==
  /\ ~aborted
  /\ pc[t] = "a_unlock"
  /\ mutex' = Unlocked
  /\ pc' = [pc EXCEPT ![t] = "idle"]
  /\ loc' = [loc EXCEPT ![t] = IdleLoc]
  /\ UNCHANGED <<pool, prot, map, live, aborted>>

\* Line 91: the early return of NULL for a size of 0.
AllocReturn(t) ==
  /\ ~aborted
  /\ pc[t] = "a_ret"
  /\ pc' = [pc EXCEPT ![t] = "idle"]
  /\ loc' = [loc EXCEPT ![t] = IdleLoc]
  /\ UNCHANGED <<pool, prot, map, mutex, live, aborted>>

\* ------------------------------------------ lj_release_to_static_pool
\* Line 165: size_blocks * STATIC_POOL_MIN_BLOCK_SIZE is an int product.  It
\* fits an int when size_blocks < 2^15.  Otherwise it overflows, which is
\* undefined: the build either wraps it to 32 bits (the value, in blocks, is
\* size_blocks mod 2^16 read as a signed 16-bit number) or computes it
\* exactly in a wider register.  The set of the products a build can
\* produce, in blocks.
IntWrapBlocks(size_blocks) ==
  LET r == size_blocks % HalfWord
  IN IF r >= IntSignBit THEN r - HalfWord ELSE r
ProductOutcomes(size_blocks) ==
  IF size_blocks < IntSignBit THEN {size_blocks}
  ELSE {size_blocks, IntWrapBlocks(size_blocks)}

\* Line 165, second disjunct: p + product > aligned_pool_start +
\* STATIC_POOL_SIZE, compared in (block, offset) pairs; a sum below address 0
\* wraps to the top of the address space and compares greater.
EndBeyondPool(p, product, aligned) ==
  LET b == (p \div STATIC_POOL_MIN_BLOCK_SIZE) + product
      o == p % STATIC_POOL_MIN_BLOCK_SIZE
      e == aligned + STATIC_POOL_SIZE
      eb == e \div STATIC_POOL_MIN_BLOCK_SIZE
      eo == e % STATIC_POOL_MIN_BLOCK_SIZE
  IN IF b < 0 THEN TRUE ELSE b > eb \/ (b = eb /\ o > eo)

\* Line 165: the bounds check.
BadBounds(p, product, aligned) ==
  p < aligned \/ EndBeyondPool(p, product, aligned)

\* Line 170: ((uintptr_t)p & STATIC_POOL_BLOCK_SIZE_MASK) == 0.
PtrAlignedAlways(p) == TRUE
PtrAligned(p) == (p % STATIC_POOL_MIN_BLOCK_SIZE) = 0

\* Lines 173-174: the two assertions on the block index.
IndexAssertsFirstOnly(index, size_blocks) == index < STATIC_POOL_MAX_ENTRIES
IndexAsserts(index, size_blocks) ==
  /\ index < STATIC_POOL_MAX_ENTRIES
  /\ index + size_blocks <= STATIC_POOL_MAX_ENTRIES

\* Lines 149-175: rounding, the bounds check (return 1), the assertions
\* (fatal) and the block index.  product is the outcome of the int product
\* of line 165.  At "r_ret1" the call returns 1; at "abort" an assert0 has
\* ended the process.
RelCall(t, p, size, product) ==
  /\ ~aborted
  /\ pc[t] = "idle"
  /\ LET size_blocks == SizeBlocks(size)
         aligned_pool_start == AlignedPoolStart(pool)
         index == (p - aligned_pool_start) \div STATIC_POOL_MIN_BLOCK_SIZE
         args == [IdleLoc EXCEPT !.size = size, !.size_blocks = size_blocks,
                                 !.p = p]
     IN /\ product \in ProductOutcomes(size_blocks)
        /\ IF size_blocks = 0
           THEN /\ loc' = [loc EXCEPT ![t] = args]
                /\ pc' = [pc EXCEPT ![t] = "r_ret1"]
                /\ UNCHANGED aborted
           ELSE IF ~(aligned_pool_start >= pool)
           THEN /\ loc' = [loc EXCEPT ![t] = args]
                /\ pc' = [pc EXCEPT ![t] = "abort"]
                /\ aborted' = TRUE
           ELSE IF BadBounds(p, product, aligned_pool_start)
           THEN /\ loc' = [loc EXCEPT ![t] = args]
                /\ pc' = [pc EXCEPT ![t] = "r_ret1"]
                /\ UNCHANGED aborted
           ELSE IF \/ ~PtrAligned(p)
                   \/ ~IndexAsserts(index, size_blocks)
           THEN /\ loc' = [loc EXCEPT ![t] = args]
                /\ pc' = [pc EXCEPT ![t] = "abort"]
                /\ aborted' = TRUE
           ELSE /\ loc' = [loc EXCEPT ![t] = [args EXCEPT !.index = index]]
                /\ pc' = [pc EXCEPT ![t] = "r_lock"]
                /\ UNCHANGED aborted
  /\ UNCHANGED <<pool, prot, map, mutex, live>>

\* The byte ranges of n1 blocks at p1 and of n2 blocks at p2 share a byte.
RangesTouch(p1, n1, p2, n2) ==
  /\ p1 < p2 + n2 * STATIC_POOL_MIN_BLOCK_SIZE
  /\ p2 < p1 + n1 * STATIC_POOL_MIN_BLOCK_SIZE

\* Line 177: pthread_mutex_lock.
RelLock(t) ==
  /\ ~aborted
  /\ pc[t] = "r_lock"
  /\ MutexFree(mutex)
  /\ mutex' = t
  /\ pc' = [pc EXCEPT ![t] = "r_mark"]
  /\ UNCHANGED <<pool, prot, map, loc, live, aborted>>

\* Lines 179-187: every flag of the run is set to 0, whatever it was (a
\* flag already 0 is only logged).  The caller's own allocations that the
\* released byte range touches end here: for a caller that keeps the
\* contract that is the allocation <<p, size>> and no other.
RelMark(t) ==
  /\ ~aborted
  /\ pc[t] = "r_mark"
  /\ map' = ReleaseRun(map, loc[t].index, loc[t].size_blocks)
  /\ loc' = [loc EXCEPT ![t].already_released = (map[loc[t].index] = 0)]
  /\ live' = [live EXCEPT ![t] =
                {a \in @ : ~RangesTouch(a.p, SizeBlocks(a.size),
                                        loc[t].p, loc[t].size_blocks)}]
  /\ pc' = [pc EXCEPT ![t] = "r_madvise"]
  /\ UNCHANGED <<pool, prot, mutex, aborted>>

\* Lines 189-191: madvise(MADV_DONTNEED); a failure is only logged.
RelAdviseFailureReturns(t, ok) ==
  /\ ~aborted
  /\ pc[t] = "r_madvise"
  /\ ok \in BOOLEAN
  /\ loc' = [loc EXCEPT ![t].madvise_failed = ~ok]
  /\ pc' = [pc EXCEPT ![t] = IF ok THEN "r_unlock" ELSE "r_ret1"]
  /\ UNCHANGED <<pool, prot, map, mutex, live, aborted>>
RelAdvise(t, ok) ==
  /\ ~aborted
  /\ pc[t] = "r_madvise"
  /\ ok \in BOOLEAN
  /\ loc' = [loc EXCEPT ![t].madvise_failed = ~ok]
  /\ pc' = [pc EXCEPT ![t] = "r_unlock"]
  /\ UNCHANGED <<pool, prot, map, mutex, live, aborted>>

\* Lines 197-201: pthread_mutex_unlock, then 0 is returned to the caller.
RelUnlock(t) ==
  /\ ~aborted
  /\ pc[t] = "r_unlock"
  /\ mutex' = Unlocked
  /\ pc' = [pc EXCEPT ![t] = "idle"]
  /\ loc' = [loc EXCEPT ![t] = IdleLoc]
  /\ UNCHANGED <<pool, prot, map, live, aborted>>

\* Lines 159 and 167: the early returns of 1.
RelReturn(t) ==
  /\ ~aborted
  /\ pc[t] = "r_ret1"
  /\ pc' = [pc EXCEPT ![t] = "idle"]
  /\ loc' = [loc EXCEPT ![t] = IdleLoc]
  /\ UNCHANGED <<pool, prot, map, mutex, live, aborted>>

\* -------------------------------------------------------- specifications
\* The steps of a call in progress, but for release's early return of 1,
\* which a caller that keeps the contract never meets.
Step(t) ==
  \/ AllocLock(t)
  \/ AllocScan(t)
  \/ \E ok \in BOOLEAN :
       \E done \in ProtectOutcomes(ok, loc[t].size_blocks) : AllocProtect(t, ok, done)
  \/ AllocUnlock(t)
  \/ AllocReturn(t)
  \/ RelLock(t)
  \/ RelMark(t)
  \/ \E ok \in BOOLEAN : RelAdvise(t, ok)
  \/ RelUnlock(t)

\* Callers that keep the contract: a thread releases only an allocation it
\* holds, with the address it was granted and the size it asked for.  They
\* ask for the protection the buffer already has.
Next ==
  \E t \in Threads :
    \/ \E size \in AllocSizes : AllocCall(t, size, BssProt)
    \/ \E h \in live[t] :
         \E product \in ProductOutcomes(SizeBlocks(h.size)) :
           RelCall(t, h.p, h.size, product)
    \/ Step(t)

Spec == Init /\ [][Next]_vars

\* A single caller that does not keep the contract: thread 1, alone, may
\* call release with any address and any size, held or not, at any time.
BigSizes == {U32(IntSignBit, 0), U32(HalfWord - 1, 0), U32(HalfWord - 1, HalfWord - 1)}
RelSizes == AllocSizes \cup BigSizes
PtrInputs ==
  LET a == AlignedPoolStart(pool)
  IN {123, a - STATIC_POOL_MIN_BLOCK_SIZE, a + 1, pool + STATIC_POOL_SIZE + 1}
       \cup {a + i * STATIC_POOL_MIN_BLOCK_SIZE : i \in 0..STATIC_POOL_MAX_ENTRIES}

NextSolo ==
  \/ \E size \in AllocSizes : AllocCall(1, size, BssProt)
  \/ \E p \in PtrInputs, size \in RelSizes :
       \E product \in ProductOutcomes(SizeBlocks(size)) :
         RelCall(1, p, size, product)
  \/ Step(1)
  \/ RelReturn(1)

SpecSolo == Init /\ [][NextSolo]_vars

\* A single caller that asks for either protection; it releases what it
\* holds, or any block-aligned address of the pool with any of the sizes it
\* asks for (a release repeated, or with another size).
NextProt ==
  \/ \E size \in AllocSizes, prt \in Prots : AllocCall(1, size, prt)
  \/ \E i \in Blocks, size \in AllocSizes :
       RelCall(1, BlockAddress(AlignedPoolStart(pool), i), size, SizeBlocks(size))
  \/ Step(1)
  \/ RelReturn(1)

SpecProt == Init /\ [][NextProt]_vars

\* The tolerated double release: a release returns 0 (lines 197-201) and
\* its caller at once calls lj_release_to_static_pool again with the same
\* address and size.  The second call passes lines 149-175 as the first
\* did (they read the arguments and the buffer's address only) and waits
\* for the mutex.
RelAgain(t) ==
  /\ ~aborted
  /\ pc[t] = "r_unlock"
  /\ mutex' = Unlocked
  /\ pc' = [pc EXCEPT ![t] = "r_lock"]
  /\ loc' = [loc EXCEPT ![t].already_released = FALSE,
                        ![t].madvise_failed = FALSE]
  /\ UNCHANGED <<pool, prot, map, live, aborted>>

\* Callers that keep the contract, but that thread 1 may release twice in
\* a row.
NextDouble == Next \/ RelAgain(1)
SpecDouble == Init /\ [][NextDouble]_vars

\* Lines 76-77: every page-aligned address the loader can give the buffer,
\* up to the block it lies in: the 16 page offsets within a block, over
\* two blocks.
PagesPerBlock == STATIC_POOL_MIN_BLOCK_SIZE \div PageSize
AlignStarts == {PageSize * k : k \in PagesPerBlock..(3 * PagesPerBlock - 1)}
InitAlign ==
  /\ pool \in AlignStarts
  /\ map = [i \in Blocks |-> 0]
  /\ prot = [i \in Blocks |-> BssProt]
  /\ mutex = Unlocked
  /\ pc = [t \in Threads |-> "idle"]
  /\ loc = [t \in Threads |-> IdleLoc]
  /\ live = [t \in Threads |-> {}]
  /\ aborted = FALSE

\* A single caller that keeps the contract.
NextAlign ==
  \/ \E size \in AllocSizes : AllocCall(1, size, BssProt)
  \/ \E h \in live[1] : RelCall(1, h.p, h.size, SizeBlocks(h.size))
  \/ Step(1)

SpecAlign == InitAlign /\ [][NextAlign]_vars

\* Fair scheduling of the threads: a thread whose next step stays possible
\* takes it.  Nothing obliges a caller to start a call, and
\* pthread_mutex_lock (lines 95 and 177) promises no order among waiters:
\* a waiter's step is possible only while the mutex is free, so the
\* fairness is weak.
Fairness == \A t \in Threads : WF_vars(Step(t))
\* The callers of Spec, asking for size 0 or for half a block only.
FairSizes == {U32(0, 0), HalfBlock}
NextFair ==
  \E t \in Threads :
    \/ \E size \in FairSizes : AllocCall(t, size, BssProt)
    \/ \E h \in live[t] : RelCall(t, h.p, h.size, SizeBlocks(h.size))
    \/ Step(t)
SpecFair == Init /\ [][NextFair]_vars /\ Fairness

\* ------------------------------------------------------------ properties
\* The pool as the specification describes it, stated without the code's
\* operators.
BlockBytes == 65536
AlignedBase == ((pool + BlockBytes - 1) \div BlockBytes) * BlockBytes
PoolBytes == STATIC_POOL_MAX_ENTRIES * BlockBytes
\* ceil(size / BlockBytes) of the unsigned int <<hi, lo>>.
CeilBlocks(size) == size[1] + ((size[2] + BlockBytes - 1) \div BlockBytes)
\* The blocks of an allocation <<p, size>>: those whose address lies in
\* [p, p + ceil(size / BlockBytes) * BlockBytes).
BlocksOf(a) ==
  {i \in Blocks :
     /\ AlignedBase + i * BlockBytes >= a.p
     /\ AlignedBase + i * BlockBytes < a.p + CeilBlocks(a.size) * BlockBytes}
\* The live allocations, each with its owner.
LiveAllocs == UNION {{<<t, a>> : a \in live[t]} : t \in Threads}
FreeMap == [i \in Blocks |-> 0]
\* k contiguous free blocks start at index s of map m.
FitsAt(m, s, k) == s \in 0..(STATIC_POOL_MAX_ENTRIES - k) /\ \A i \in s..(s + k - 1) : m[i] = 0
Fits(m, k) == {s \in Blocks : FitsAt(m, s, k)}
Lowest(S) == CHOOSE s \in S : \A x \in S : s <= x

\* C1: with several threads acquiring and releasing in any interleaving,
\* each releasing only what it was granted, once, with the size it asked
\* for, the block ranges of the live allocations are pairwise disjoint and
\* flag i is 1 iff block i belongs to exactly one live allocation.  (An
\* allocation is live from the step that marks its run to the step that
\* frees it.)
C1_LiveDisjointAndMapped ==
  /\ \A x \in LiveAllocs : \A y \in LiveAllocs :
       x # y => BlocksOf(x[2]) \cap BlocksOf(y[2]) = {}
  /\ \A i \in Blocks :
       (map[i] = 1) <=> (Cardinality({x \in LiveAllocs : i \in BlocksOf(x[2])}) = 1)
  /\ \A i \in Blocks : map[i] \in {0, 1}

\* Two threads hold allocations while one is inside the critical section
\* and the other waits for the mutex.
C1_Witness ==
  \E t \in Threads : \E u \in Threads \ {t} :
    /\ live[t] # {} /\ live[u] # {}
    /\ pc[t] = "a_lock" /\ pc[u] = "r_madvise"

\* C2: given the map at the scan and a request of k >= 1 blocks, the scan
\* finds a candidate iff some index s in 0..N-k has blocks s..s+k-1 all
\* free, the candidate is AlignedBase + s*BlockBytes for the lowest such s,
\* a successful protection change returns exactly that address, and with no
\* such index (k > N included) the call returns null.
C2_FirstFit ==
  [][\A t \in Threads :
       /\ (pc[t] = "a_scan" /\ pc'[t] # "a_scan") =>
            LET S == Fits(map, CeilBlocks(loc[t].size))
            IN IF S = {}
               THEN pc'[t] = "a_unlock" /\ loc'[t].p = NULL
               ELSE /\ pc'[t] = "a_mprotect"
                    /\ loc'[t].p = AlignedBase + Lowest(S) * BlockBytes
       /\ (pc[t] = "a_mprotect" /\ pc'[t] = "a_unlock" /\ map' # map) =>
            loc'[t].p = loc[t].p /\ loc'[t].p # NULL
    ]_vars

\* A one-block request has found its candidate in a map with a free block
\* below an occupied block and another free block above it, and the
\* candidate is the lower one.
C2_Witness ==
  \E t \in Threads :
    /\ pc[t] = "a_mprotect" /\ loc[t].size_blocks = 1
    /\ \E lo \in Blocks, mid \in Blocks, hi \in Blocks :
         /\ lo < mid /\ mid < hi
         /\ map[lo] = 0 /\ map[mid] = 1 /\ map[hi] = 0
         /\ loc[t].p = AlignedBase + lo * BlockBytes

\* C3: every non-null address acquire returns is a multiple of BlockBytes,
\* lies in [AlignedBase, AlignedBase + PoolBytes), and its granted range
\* ends at or before AlignedBase + PoolBytes.
C3_AlignedInPool ==
  \A t \in Threads :
    (pc[t] = "a_unlock" /\ loc[t].p # NULL) =>
      /\ loc[t].p % BlockBytes = 0
      /\ loc[t].p >= AlignedBase
      /\ loc[t].p < AlignedBase + PoolBytes
      /\ loc[t].p + CeilBlocks(loc[t].size) * BlockBytes <= AlignedBase + PoolBytes

\* An acquire is about to return an address above AlignedBase whose run
\* ends exactly at the end of the pool, the buffer itself not being
\* block-aligned.
C3_Witness ==
  \E t \in Threads :
    /\ pc[t] = "a_unlock" /\ loc[t].p # NULL
    /\ pool % BlockBytes # 0
    /\ loc[t].p > AlignedBase
    /\ loc[t].p + CeilBlocks(loc[t].size) * BlockBytes = AlignedBase + PoolBytes

\* The blocks granted to live allocations.
GrantedBlocks == UNION {BlocksOf(x[2]) : x \in LiveAllocs}

\* C4: while the live allocations hold all N blocks, every acquire of one
\* or more blocks returns null; whenever at least one block is not granted
\* (as after a release from the full pool), a one-block acquire finds a
\* block, and is granted it when the protection change succeeds.
C4_Exhaustion ==
  [][\A t \in Threads :
       /\ (pc[t] = "a_scan" /\ pc'[t] # "a_scan") =>
            /\ (Cardinality(GrantedBlocks) = STATIC_POOL_MAX_ENTRIES) =>
                 (pc'[t] = "a_unlock" /\ loc'[t].p = NULL)
            /\ (/\ CeilBlocks(loc[t].size) = 1
                /\ Cardinality(GrantedBlocks) < STATIC_POOL_MAX_ENTRIES) =>
                 (pc'[t] = "a_mprotect" /\ loc'[t].p # NULL)
       /\ (pc[t] = "a_mprotect" /\ pc'[t] = "a_unlock" /\ map' # map) =>
            [p |-> loc[t].p, size |-> loc[t].size] \in live'[t]
    ]_vars

\* An acquire returns null while several live allocations hold all N blocks.
C4_Witness ==
  \E t \in Threads :
    /\ pc[t] = "a_unlock" /\ loc[t].p = NULL /\ loc[t].size_blocks >= 1
    /\ Cardinality(GrantedBlocks) = STATIC_POOL_MAX_ENTRIES
    /\ Cardinality(LiveAllocs) >= 2

\* C5: once every granted allocation has been released with its address
\* and size, in whatever order, the map is all-free as initially.
C5_RoundTrip == (LiveAllocs = {}) => (map = FreeMap)

\* A release of a run of several blocks has been carried out and nothing
\* is live any more.
C5_Witness ==
  \E t \in Threads :
    /\ pc[t] = "r_unlock" /\ loc[t].size_blocks >= 2
    /\ LiveAllocs = {} /\ map = FreeMap

\* The states of a release call, and the step that starts one.
RelStates == {"r_lock", "r_mark", "r_madvise", "r_unlock", "r_ret1", "abort"}
RelCalled(t) == pc[t] = "idle" /\ pc'[t] \in RelStates
\* The arguments name a run inside the pool: block-aligned, at or after
\* AlignedBase, at least one block, ending at or before the pool's end.
InBoundsAligned(p, size) ==
  /\ p % BlockBytes = 0
  /\ p >= AlignedBase
  /\ CeilBlocks(size) >= 1
  /\ ((p - AlignedBase) \div BlockBytes) + CeilBlocks(size) <= STATIC_POOL_MAX_ENTRIES
\* The address is before AlignedBase, or address + rounded size is beyond
\* AlignedBase + PoolBytes (compared in blocks and offset).
OutOfBounds(p, size) ==
  \/ p < AlignedBase
  \/ LET b == (p \div BlockBytes) + CeilBlocks(size)
         e == (AlignedBase + PoolBytes) \div BlockBytes
     IN b > e \/ (b = e /\ p % BlockBytes > 0)

\* C6: a release with an in-bounds, block-aligned address takes the path
\* that returns 0, whether or not the run is held; it sets the flags of the
\* run to 0 and changes no other flag, every flag stays 0 or 1, and when
\* the run is already free (the second of two releases in a row) the map
\* after the call equals the map before it.
C6_IdempotentRelease ==
  [][\A t \in Threads :
       /\ (RelCalled(t) /\ InBoundsAligned(loc'[t].p, loc'[t].size)) =>
            pc'[t] = "r_lock"
       /\ (pc[t] = "r_mark" /\ pc'[t] # "r_mark") =>
            LET run == BlocksOf([p |-> loc[t].p, size |-> loc[t].size])
            IN /\ pc'[t] = "r_madvise"
               /\ \A i \in Blocks :
                    /\ map'[i] \in {0, 1}
                    /\ i \in run => map'[i] = 0
                    /\ i \notin run => map'[i] = map[i]
               /\ (\A i \in run : map[i] = 0) => map' = map
       /\ (pc[t] = "r_madvise" /\ pc'[t] # "r_madvise") => pc'[t] = "r_unlock"
       /\ (pc[t] = "r_unlock" /\ pc'[t] # "r_unlock") =>
            pc'[t] = "idle" /\ mutex' = Unlocked
    ]_vars

\* A release of a run of several blocks whose first block was already free
\* has been carried out and is about to return 0, the run is free and a
\* block next to it is still occupied.
C6_Witness ==
  /\ pc[1] = "r_unlock" /\ loc[1].already_released
  /\ loc[1].size_blocks >= 2
  /\ [p |-> loc[1].p, size |-> loc[1].size] \notin live[1]
  /\ \E i \in Blocks :
       /\ i \notin BlocksOf([p |-> loc[1].p, size |-> loc[1].size])
       /\ map[i] = 1

\* C7: a release whose address is before AlignedBase, or whose address +
\* rounded size is beyond AlignedBase + PoolBytes, returns nonzero (it does
\* not end in the fatal assertion, aligned address or not) and changes no
\* flag, for every address and every unsigned 32-bit size.
C7_BoundsRejected ==
  [][\A t \in Threads :
       (RelCalled(t) /\ OutOfBounds(loc'[t].p, loc'[t].size)) =>
         (pc'[t] = "r_ret1" /\ map' = map /\ ~aborted')
    ]_vars

\* C8: the protection change either succeeds (the run is marked, the
\* address kept) or fails, and then the result is null, no flag and no
\* allocation changes, no later candidate is tried (the call goes straight
\* to the unlock) and the mutex, held throughout, is released next.
C8_ProtectFailure ==
  [][\A t \in Threads :
       /\ (pc[t] = "a_mprotect" /\ pc'[t] # "a_mprotect") =>
            /\ pc'[t] = "a_unlock"
            /\ mutex = t /\ mutex' = t
            /\ loc'[t].start = loc[t].start
            /\ \/ loc'[t].p = NULL /\ map' = map /\ live' = live
               \/ loc'[t].p = loc[t].p /\ map' # map
       /\ (pc[t] = "a_unlock" /\ pc'[t] # "a_unlock") =>
            pc'[t] = "idle" /\ mutex' = Unlocked /\ map' = map
    ]_vars

\* An acquire is about to return null, still holding the mutex, although
\* the map has room for its request at two or more indices: the protection
\* change of the first candidate failed and the second was not tried.
C8_Witness ==
  \E t \in Threads :
    /\ pc[t] = "a_unlock" /\ loc[t].p = NULL /\ mutex = t
    /\ Cardinality(Fits(map, loc[t].size_blocks)) >= 2

\* The flags a step changes.
Changed == {i \in Blocks : map'[i] # map[i]}

\* C9: a successful acquire of size s > 0 changes exactly ceil(s /
\* BlockBytes) flags, from 0 to 1 (one flag for s in 1..BlockBytes-1), those
\* of the run at the returned address; the release of that allocation with
\* the same unrounded size changes exactly those flags back to 0.
C9_SizeRounding ==
  [][\A t \in Threads :
       LET a == [p |-> loc[t].p, size |-> loc[t].size]
       IN /\ (pc[t] = "a_mprotect" /\ pc'[t] = "a_unlock" /\ loc'[t].p # NULL) =>
               /\ Changed = BlocksOf(a)
               /\ Cardinality(Changed) = CeilBlocks(loc[t].size)
               /\ \A i \in Changed : map[i] = 0 /\ map'[i] = 1
          /\ (pc[t] = "r_mark" /\ pc'[t] = "r_madvise") =>
               /\ a \in live[t]
               /\ Changed = BlocksOf(a)
               /\ Cardinality(Changed) = CeilBlocks(loc[t].size)
               /\ \A i \in Changed : map[i] = 1 /\ map'[i] = 0
    ]_vars

\* The allocation of half a block has been released with that size while
\* another block stays occupied.
C9_Witness ==
  \E t \in Threads :
    /\ pc[t] = "r_madvise" /\ loc[t].size = HalfBlock
    /\ map[loc[t].index] = 0
    /\ \E i \in Blocks : map[i] = 1

\* C10: on the all-free map an acquire of N*BlockBytes finds the run at
\* AlignedBase and, the protection change succeeding, marks all N blocks;
\* while that allocation is live every acquire, by any thread, ends in null.
C10_FullPool ==
  [][\A t \in Threads :
       /\ (pc[t] = "a_scan" /\ pc'[t] # "a_scan") =>
            /\ (map = FreeMap
                /\ loc[t].size = U32(STATIC_POOL_MAX_ENTRIES, 0)) =>
                 (pc'[t] = "a_mprotect" /\ loc'[t].p = AlignedBase)
            /\ (\E x \in LiveAllocs :
                  CeilBlocks(x[2].size) = STATIC_POOL_MAX_ENTRIES) =>
                 (pc'[t] = "a_unlock" /\ loc'[t].p = NULL)
       /\ (/\ pc[t] = "a_mprotect" /\ pc'[t] = "a_unlock" /\ loc'[t].p # NULL
           /\ loc[t].size = U32(STATIC_POOL_MAX_ENTRIES, 0)) =>
            /\ \A i \in Blocks : map'[i] = 1
            /\ [p |-> AlignedBase, size |-> loc[t].size] \in live'[t]
    ]_vars

\* While one thread holds the allocation of the whole pool, another
\* thread's acquire is about to return null.
C10_Witness ==
  \E t \in Threads : \E u \in Threads \ {t} :
    /\ [p |-> AlignedBase, size |-> U32(STATIC_POOL_MAX_ENTRIES, 0)] \in live[t]
    /\ pc[u] = "a_unlock" /\ loc[u].p = NULL /\ loc[u].size_blocks >= 1

\* The states in which a call holds the mutex, and those of a call that
\* waits for it.
Holding == {"a_scan", "a_mprotect", "a_unlock", "r_mark", "r_madvise", "r_unlock"}
Waiting == {"a_lock", "r_lock"}

\* C11 as stated: under fair scheduling of the threads every call that
\* starts eventually returns, whatever the number of concurrent callers.
C11_EveryCallReturns ==
  \A t \in Threads : (pc[t] # "idle") ~> (pc[t] = "idle")

\* C11, amended: under fair scheduling of the threads every call that does
\* not wait for the lock (it needs none, or holds it) eventually returns;
\* the lock is held exactly by a call between its lock and its unlock, on
\* every path (success, exhaustion, protection failure, madvise failure),
\* so it is free whenever no call is in progress; and a waiting call
\* eventually either gets the lock or sees it free again.
C11_LockReleased ==
  /\ []((\A t \in Threads : pc[t] = "idle") => mutex = Unlocked)
  /\ [](\A t \in Threads : (mutex = t) <=> (pc[t] \in Holding))
  /\ \A t \in Threads : (pc[t] \notin Waiting) ~> (pc[t] = "idle")
  /\ \A t \in Threads : (pc[t] \in Waiting) ~> (pc[t] \notin Waiting \/ mutex = Unlocked)

\* A release waits for the mutex while an acquire whose protection change
\* failed still holds it, about to unlock and return null.
C11_Witness ==
  \E t \in Threads : \E u \in Threads \ {t} :
    /\ pc[t] = "r_lock"
    /\ pc[u] = "a_unlock" /\ loc[u].p = NULL /\ mutex = u
    /\ Fits(map, loc[u].size_blocks) # {}

\* The blocks of the run a call works on, from its arguments.
RunOf(t) == BlocksOf([p |-> loc[t].p, size |-> loc[t].size])
\* The step in which thread t's protection change succeeds, and the one in
\* which it fails.
ProtectOk(t) == pc[t] = "a_mprotect" /\ pc'[t] = "a_unlock" /\ loc'[t].p # NULL
ProtectFails(t) == pc[t] = "a_mprotect" /\ pc'[t] = "a_unlock" /\ loc'[t].p = NULL

\* C12 as stated: a successful acquire gives every block of the granted
\* range the requested protection and changes the protection of no block
\* outside it; a failed acquire and any release change no block's
\* protection.
C12_ProtectionFrame ==
  [][IF \E t \in Threads : ProtectOk(t)
     THEN \A t \in Threads : ProtectOk(t) =>
            \A i \in Blocks :
              prot'[i] = IF i \in RunOf(t) THEN loc[t].prot ELSE prot[i]
     ELSE prot' = prot
    ]_vars

\* C12, amended: a successful acquire gives every block of the granted
\* range the requested protection and changes no block outside it; an
\* acquire whose protection change fails changes no block outside the run
\* it tried, whose blocks are all free and are each left with their old or
\* the requested protection; every other step of an acquire or a release
\* changes no block's protection.
C12_ProtectionFrameOfRun ==
  [][\A t \in Threads :
       /\ ProtectOk(t) =>
            \A i \in Blocks :
              prot'[i] = IF i \in RunOf(t) THEN loc[t].prot ELSE prot[i]
       /\ ProtectFails(t) =>
            /\ map' = map
            /\ \A i \in Blocks :
                 IF i \in RunOf(t)
                 THEN map[i] = 0 /\ prot'[i] \in {prot[i], loc[t].prot}
                 ELSE prot'[i] = prot[i]
       /\ (pc'[t] # pc[t] /\ pc[t] # "a_mprotect") => prot' = prot
    ]_vars

\* An acquire that asked for read/write/execute is about to return its
\* run: the blocks of the run have that protection, a block outside it has
\* the buffer's first protection and is occupied.
C12_Witness ==
  /\ pc[1] = "a_unlock" /\ loc[1].p # NULL
  /\ loc[1].prot = PROT_READ + PROT_WRITE + PROT_EXEC
  /\ \A i \in RunOf(1) : prot[i] = loc[1].prot
  /\ \E i \in Blocks \ RunOf(1) : prot[i] = BssProt /\ map[i] = 1

\* C13: a release whose address passes the bounds check (at or after
\* AlignedBase, address + rounded size not beyond the pool's end, size not
\* 0) but is not a multiple of BlockBytes ends in the fatal assertion: it
\* neither returns 0 nor nonzero, no flag has changed when the assertion
\* fires, and nothing runs after it.
C13_UnalignedIsFatal ==
  [][/\ ~aborted
     /\ \A t \in Threads :
          (/\ RelCalled(t)
           /\ CeilBlocks(loc'[t].size) >= 1
           /\ ~OutOfBounds(loc'[t].p, loc'[t].size)
           /\ loc'[t].p % BlockBytes # 0) =>
            (pc'[t] = "abort" /\ aborted' /\ map' = map /\ mutex' = mutex)
    ]_vars

\* A release of an address one byte above AlignedBase, with a size of two
\* blocks that ends inside the pool, has ended in the assertion while a
\* block is occupied.
C13_Witness ==
  /\ pc[1] = "abort" /\ aborted
  /\ loc[1].p = AlignedBase + 1
  /\ CeilBlocks(loc[1].size) = 2
  /\ ~OutOfBounds(loc[1].p, loc[1].size)
  /\ \E i \in Blocks : map[i] = 1

\* The states of an acquire call right after its start, and that step.
AllocCalled(t) == pc[t] = "idle" /\ pc'[t] \in {"a_ret", "a_lock"}

\* C14: a size of 0 is rejected by both operations: acquire goes to its
\* return of null and release, for every address, to its return of
\* nonzero; from the call to the return no flag changes and the lock is
\* not taken.
C14_ZeroSizeRejected ==
  [][\A t \in Threads :
       /\ (AllocCalled(t) /\ loc'[t].size = U32(0, 0)) =>
            (pc'[t] = "a_ret" /\ map' = map /\ mutex' = mutex)
       /\ (RelCalled(t) /\ loc'[t].size = U32(0, 0)) =>
            (pc'[t] = "r_ret1" /\ map' = map /\ mutex' = mutex /\ ~aborted')
       /\ (pc[t] \in {"a_ret", "r_ret1"} /\ pc'[t] # pc[t]) =>
            (pc'[t] = "idle" /\ map' = map /\ mutex' = mutex /\ mutex # t)
    ]_vars

\* A release of size 0 at the address of an occupied block is about to
\* return nonzero, the block still occupied and the lock free.
C14_Witness ==
  /\ pc[1] = "r_ret1" /\ loc[1].size = U32(0, 0)
  /\ loc[1].p = AlignedBase + BlockBytes
  /\ map[1] = 1 /\ mutex = Unlocked

\* C15: a release whose madvise fails ends as one whose madvise succeeds
\* (the two differ in the logged failure only): the step changes no flag, every block of the released run is free, the
\* call goes on to the unlock and from there returns 0 with the lock free,
\* the run still free.
C15_AdviseFailureIgnored ==
  [][\A t \in Threads :
       /\ (pc[t] = "r_madvise" /\ pc'[t] # "r_madvise") =>
            /\ pc'[t] = "r_unlock"
            /\ map' = map /\ mutex' = mutex /\ live' = live /\ ~aborted'
            /\ loc'[t] = [loc[t] EXCEPT !.madvise_failed = loc'[t].madvise_failed]
            /\ \A i \in RunOf(t) : map'[i] = 0
       /\ (pc[t] = "r_unlock" /\ pc'[t] # "r_unlock") =>
            /\ pc'[t] = "idle" /\ mutex' = Unlocked /\ map' = map
            /\ \A i \in RunOf(t) : map'[i] = 0
    ]_vars

\* A release of several blocks whose madvise failed is about to unlock and
\* return 0: its run is free, another thread's block is occupied.
C15_Witness ==
  \E t \in Threads :
    /\ pc[t] = "r_unlock" /\ loc[t].madvise_failed
    /\ loc[t].size_blocks >= 2
    /\ \A i \in RunOf(t) : map[i] = 0
    /\ \E i \in Blocks : map[i] = 1

\* C16: whenever a thread is at its mprotect (acquire) or at its madvise
\* (release) it holds the lock, every block of the range the call is about
\* to pass is marked free, and none of them belongs to an allocation of
\* another thread.
C16_SyscallsUnderLock ==
  \A t \in Threads :
    (pc[t] \in {"a_mprotect", "r_madvise"}) =>
      /\ mutex = t
      /\ RunOf(t) # {}
      /\ \A i \in RunOf(t) : map[i] = 0
      /\ \A u \in Threads \ {t} : \A a \in live[u] : BlocksOf(a) \cap RunOf(t) = {}

\* A thread is at the mprotect of a run of several blocks while another
\* thread, which holds an allocation, waits for the lock to release it.
C16_Witness ==
  \E t \in Threads : \E u \in Threads \ {t} :
    /\ pc[t] = "a_mprotect" /\ loc[t].size_blocks >= 2
    /\ pc[u] = "r_lock" /\ live[u] # {}

\* C17: no two live allocations share a block, also when callers release
\* twice: after A released a range, B was granted it and A released the
\* same address and size again, no acquire is granted a block B holds.
C17_NoSharedBlock ==
  \A x \in LiveAllocs : \A y \in LiveAllocs :
    x # y => BlocksOf(x[2]) \cap BlocksOf(y[2]) = {}

\* The indices i..i+k-1 of a release of k blocks at index i, from its
\* arguments.
ReleaseIndices(t) ==
  LET i == (loc[t].p - AlignedBase) \div BlockBytes
  IN i..(i + CeilBlocks(loc[t].size) - 1)

\* C18: the marking step of a release that returns 0 changes no flag
\* outside i..i+k-1; the marking step of a successful acquire changes
\* exactly the flags of its granted run, each from 0 to 1; no other step of
\* any call changes a flag, so a call that returns null or nonzero changes
\* none.
C18_MapFrame ==
  [][\A t \in Threads :
       (pc'[t] # pc[t]) =>
         IF pc[t] = "r_mark"
         THEN /\ Changed \subseteq ReleaseIndices(t)
              /\ \A i \in ReleaseIndices(t) : i \in Blocks /\ map'[i] = 0
         ELSE IF ProtectOk(t)
         THEN /\ Changed = RunOf(t)
              /\ Changed # {}
              /\ \A i \in Changed : map[i] = 0 /\ map'[i] = 1
         ELSE map' = map
    ]_vars

\* A release of one block in the middle of the pool has been marked: that
\* flag is 0 and the flags on both sides are still 1.
C18_Witness ==
  /\ pc[1] = "r_madvise"
  /\ CeilBlocks(loc[1].size) = 1
  /\ \E i \in Blocks :
       /\ loc[1].p = AlignedBase + i * BlockBytes
       /\ i - 1 \in Blocks /\ i + 1 \in Blocks
       /\ map[i - 1] = 1 /\ map[i] = 0 /\ map[i + 1] = 1

\* The capacity of the backing buffer.
RegionCapacity == PoolBytes + BlockBytes

\* C19: for every 4096-aligned start of the buffer, the aligned base the
\* code computes is (RegionStart + BlockBytes - 1) rounded down to a
\* multiple of BlockBytes, it is at or after the start, the pool from it
\* ends at or before the end of the buffer, and acquire and release work
\* from the same base: the address acquire grants for index start, and the
\* index release derives from an address, both count from AlignedBase.
C19_AlignedBaseInRegion ==
  /\ pool % PageSize = 0
  /\ AlignedPoolStart(pool) = AlignedBase
  /\ AlignedPoolStart(pool) % BlockBytes = 0
  /\ AlignedPoolStart(pool) >= pool
  /\ AlignedPoolStart(pool) + PoolBytes <= pool + RegionCapacity
  /\ \A t \in Threads :
       /\ (pc[t] = "a_mprotect" \/ (pc[t] = "a_unlock" /\ loc[t].p # NULL)) =>
            loc[t].p = AlignedBase + loc[t].start * BlockBytes
       /\ (pc[t] \in {"r_lock", "r_mark", "r_madvise", "r_unlock"}) =>
            loc[t].p = AlignedBase + loc[t].index * BlockBytes

\* With the buffer one page above a block boundary (the base then lies
\* furthest from the buffer's start, a page short of a whole block), the
\* release of the pool's last block has derived its index.
C19_Witness ==
  /\ pool % BlockBytes = PageSize
  /\ pc[1] = "r_lock"
  /\ loc[1].index = STATIC_POOL_MAX_ENTRIES - 1
  /\ loc[1].p + BlockBytes = AlignedBase + PoolBytes
  /\ AlignedBase + PoolBytes < pool + RegionCapacity

\* C20: neither operation reads or writes a flag outside 0..N-1: the scan
\* of an acquire reads indices of the map only, whatever the size (none
\* when it needs more than N blocks); the marking loop of an acquire
\* writes the found run only; and a release that has passed its bounds
\* check and assertions, whatever its address and size, reads and writes
\* indices index..index+size_blocks-1 with index + size_blocks <= N.
C20_MapIndicesInRange ==
  \A t \in Threads :
    /\ (pc[t] = "a_scan") =>
         /\ ScanReads(map, 0, loc[t].size_blocks) \subseteq Blocks
         /\ (loc[t].size_blocks > STATIC_POOL_MAX_ENTRIES) =>
              ScanReads(map, 0, loc[t].size_blocks) = {}
    /\ (pc[t] = "a_mprotect") =>
         MarkIndices(loc[t].start, loc[t].size_blocks) \subseteq Blocks
    /\ (pc[t] \in {"r_lock", "r_mark"}) =>
         /\ MarkIndices(loc[t].index, loc[t].size_blocks) \subseteq Blocks
         /\ loc[t].index + loc[t].size_blocks <= STATIC_POOL_MAX_ENTRIES

\* An acquire of two blocks is at its scan of a map whose first and last
\* flags are 1: the scan reads every flag up to the last, N-1, and finds
\* no run.
C20_Witness ==
  /\ pc[1] = "a_scan" /\ loc[1].size_blocks = 2
  /\ map[0] = 1 /\ map[STATIC_POOL_MAX_ENTRIES - 1] = 1
  /\ (STATIC_POOL_MAX_ENTRIES - 1) \in ScanReads(map, 0, loc[1].size_blocks)
  /\ ~ScanFrom(map, 0, loc[1].size_blocks)[1]

====
